---- MODULE Spec2Model ----
(***************************************************************************)
(* vita: the concurrent fan-out of (host, source) fetches, the source      *)
(* adapters (AnubisDB, Facebook, PassiveTotal, CertSpotter) and the        *)
(* consumer loop of the command line tool.                                 *)
(*                                                                         *)
(* A string is a sequence of tokens: a token is a DNS label ("a", "h1"),   *)
(* a dot ".", a quotation mark, or a wildcard "*".  format!, to_string and *)
(* the Cleaner work on these sequences.                                    *)
(***************************************************************************)
EXTENDS Naturals, Sequences, FiniteSets, Bags, TLC

\* ------------------------------------------------------------------ bounds
\* lines of input read by read_input
MaxLines == 2
\* largest value given to --concurrency
MaxConcurrency == 2

\* ------------------------------------------------------------------ helpers
Range(s) == {s[i] : i \in 1..Len(s)}

RECURSIVE Flatten(_)
Flatten(ss) == IF ss = <<>> THEN <<>> ELSE Head(ss) \o Flatten(Tail(ss))

RECURSIVE SeqToBag(_)
SeqToBag(s) == IF s = <<>> THEN EmptyBag ELSE SetToBag({Head(s)}) (+) SeqToBag(Tail(s))

RECURSIVE BagToSeq(_)
\* the elements of a bag, each as often as it occurs, in some fixed order
BagToSeq(b) ==
    IF BagToSet(b) = {} THEN <<>>
    ELSE LET x == CHOOSE y \in BagToSet(b) : TRUE
         IN  <<x>> \o BagToSeq(b (-) SetToBag({x}))

\* ------------------------------------------------------------------ strings
QUOTE == "\""
DOT == "."
WILDCARD == "*"

h1 == <<"h1">>
h2 == <<"h2">>
HostPool == {h1, h2}

\* "<label>.<host>"
Sub(label, host) == <<label, DOT>> \o host

\* ------------------------------------------------------------------ errors
\* vita::error::Result<()> as the adapters build it
Ok == [tag |-> "Ok", kind |-> "", source |-> "", host |-> <<>>]
Panic == [tag |-> "Panic", kind |-> "", source |-> "", host |-> <<>>]
Pending == [tag |-> "Pending", kind |-> "", source |-> "", host |-> <<>>]
Err(kind, source, host) == [tag |-> "Err", kind |-> kind, source |-> source, host |-> host]

\* Error::source_error(source, host): "<source> couldn't find any results for: <host>"
source_error(source, host) == Err("source_error", source, host)
\* Error::key_error(source, vars): "Couldn't read <vars> for <source>"
key_error(source) == Err("key_error", source, <<>>)
\* Error::auth_error(source)
auth_error(source) == Err("auth_error", source, <<>>)
\* `?` on a reqwest::Error of send() (connect, TLS, timeout)
transport_error == Err("transport", "", <<>>)
\* `?` on a reqwest::Error of json() (body is not the expected JSON)
decode_error == Err("decode", "", <<>>)
\* `?` on the SendError of tx.send() (receiver dropped)
send_error == Err("send", "", <<>>)

\* ------------------------------------------------------------------ responses
\* One HTTP exchange.  kind: "transport" (no response), "garbage" (not
\* JSON), "null", "arr" (array of strings: items), "groups" (object
\* {"data": [{"domains": [...]}, ...]}: data), "pt" (object {"success",
\* "primaryDomain", "subdomains"}: primary, items), "token" (object
\* {"access_token"}: token), "certs" (array of {"dns_names": [...]}: data).
Resp(status, kind, items, data, primary, token) ==
    [status |-> status, kind |-> kind, items |-> items, data |-> data,
     primary |-> primary, token |-> token]

NoResp == Resp(0, "none", <<>>, <<>>, <<>>, <<>>)
Transport == Resp(0, "transport", <<>>, <<>>, <<>>, <<>>)
Garbage(st) == Resp(st, "garbage", <<>>, <<>>, <<>>, <<>>)
Null(st) == Resp(st, "null", <<>>, <<>>, <<>>, <<>>)
Arr(st, items) == Resp(st, "arr", items, <<>>, <<>>, <<>>)
Groups(st, data) == Resp(st, "groups", <<>>, data, <<>>, <<>>)
Pt(st, primary, subs) == Resp(st, "pt", subs, <<>>, primary, <<>>)
Token(st, tok) == Resp(st, "token", <<>>, <<>>, <<>>, tok)
Certs(st, data) == Resp(st, "certs", <<>>, data, <<>>, <<>>)

is_client_error(status) == status >= 400 /\ status < 500
is_server_error(status) == status >= 500 /\ status < 600
IsErrorStatus(status) == is_client_error(status) \/ is_server_error(status)

\* ------------------------------------------------------------------ a fetch
\* One (host, source) fetch: the future of DataSource::run.  pc is its await
\* point: "scheduled" (not yet polled), "auth" / "query" (an HTTP request is
\* in flight), "sending" (suspended in tx.send), "done" (returned).
\* reqs counts the HTTP requests it has issued, resp is the last response it
\* received, batch the Vec<String> it passed to tx.send, ret what
\* CertSpotter's run returned.
Task(host, source) ==
    [host |-> host, source |-> source, pc |-> "scheduled", reqs |-> 0,
     resp |-> NoResp, batch |-> <<>>, result |-> Pending, ret |-> {}]

Return(t, result) == [t EXCEPT !.pc = "done", !.result = result]
Request(t, pc) == [t EXCEPT !.pc = pc, !.reqs = @ + 1]
Received(t, r) == [t EXCEPT !.resp = r]
SendBatch(t, subdomains) == [t EXCEPT !.pc = "sending", !.batch = subdomains]

\* ---- anubisdb.rs
\* serde_json::Value::to_string of a JSON string: the text with its quotes
to_string(s) == <<QUOTE>> \o s \o <<QUOTE>>

\* Value::as_array(): Some for a JSON array, None for any other value
as_array_is_some(d) == d.kind = "arr"

AnubisSubdomains(d) == [i \in 1..Len(d.items) |-> to_string(d.items[i])]

AnubisRunStart(t) == Request(t, "query")

\* (AnubisRunResponseNoSend: Ok(()) returned without tx.send)
AnubisRunResponseNoSend(t, r) ==
    IF r.kind = "transport" THEN Return(t, transport_error)
    ELSE IF r.kind = "garbage" THEN Return(t, decode_error)
    ELSE IF r.kind = "null" THEN Return(t, source_error("AnubisDB", t.host))
    ELSE IF ~as_array_is_some(r) THEN Return(t, Panic)
    ELSE IF AnubisSubdomains(r) # <<>>
         THEN [Return(t, Ok) EXCEPT !.batch = AnubisSubdomains(r)]
    ELSE Return(t, source_error("AnubisDB", t.host))

AnubisRunResponse(t, r) ==
    IF r.kind = "transport" THEN Return(t, transport_error)
    ELSE IF r.kind = "garbage" THEN Return(t, decode_error)
    ELSE IF r.kind = "null" THEN Return(t, source_error("AnubisDB", t.host))
    ELSE IF ~as_array_is_some(r) THEN Return(t, Panic)
    ELSE IF AnubisSubdomains(r) # <<>> THEN SendBatch(t, AnubisSubdomains(r))
    ELSE Return(t, source_error("AnubisDB", t.host))

\* ---- facebook.rs
\* (read_creds_either: || written for &&)
read_creds_either(env) == "FB_APP_ID" \in env \/ "FB_APP_SECRET" \in env
read_creds(env) == "FB_APP_ID" \in env /\ "FB_APP_SECRET" \in env

FacebookSubdomains(d) == Flatten(d.data)

FacebookRunStart(t, env) ==
    IF read_creds(env) THEN Request(t, "auth")
    ELSE Return(t, key_error("Facebook"))

\* Creds::authenticate, then the certificate query of Facebook::run
\* (authenticate_unchecked: the query issued whatever the body was)
authenticate_unchecked(t, r) ==
    IF r.kind = "transport" THEN Return(t, transport_error)
    ELSE Request(t, "query")
authenticate(t, r) ==
    IF r.kind = "transport" THEN Return(t, transport_error)
    ELSE IF r.kind = "null" THEN Return(t, auth_error("Facebook"))
    ELSE IF r.kind = "token" THEN Request(t, "query")
    ELSE Return(t, decode_error)

\* (FacebookRunResponseEmptyOk: an empty list returned as Ok(()))
FacebookRunResponseEmptyOk(t, r) ==
    IF r.kind = "transport" THEN Return(t, transport_error)
    ELSE IF r.kind = "null" THEN Return(t, source_error("Facebook", t.host))
    ELSE IF r.kind # "groups" THEN Return(t, decode_error)
    ELSE IF FacebookSubdomains(r) # <<>> THEN SendBatch(t, FacebookSubdomains(r))
    ELSE Return(t, Ok)

FacebookRunResponse(t, r) ==
    IF r.kind = "transport" THEN Return(t, transport_error)
    ELSE IF r.kind = "null" THEN Return(t, source_error("Facebook", t.host))
    ELSE IF r.kind # "groups" THEN Return(t, decode_error)
    ELSE IF FacebookSubdomains(r) # <<>> THEN SendBatch(t, FacebookSubdomains(r))
    ELSE Return(t, source_error("Facebook", t.host))

\* ---- passivetotal.rs
from_env(env) == "PASSIVETOTAL_KEY" \in env /\ "PASSIVETOTAL_SECRET" \in env

PassiveTotalSubdomains(d) ==
    [i \in 1..Len(d.items) |-> d.items[i] \o <<DOT>> \o d.primary]

PassiveTotalRunStart(t, env) ==
    IF from_env(env) THEN Request(t, "query")
    ELSE Return(t, key_error("PassiveTotal"))

\* (PassiveTotalRunResponseInverted: the is_empty test inverted)
PassiveTotalRunResponseInverted(t, r) ==
    IF r.kind = "transport" THEN Return(t, transport_error)
    ELSE IF is_client_error(r.status) THEN Return(t, auth_error("passivetotal"))
    ELSE IF r.kind # "pt" THEN Return(t, decode_error)
    ELSE IF PassiveTotalSubdomains(r) = <<>> THEN SendBatch(t, PassiveTotalSubdomains(r))
    ELSE Return(t, source_error("PassiveTotal", t.host))

PassiveTotalRunResponse(t, r) ==
    IF r.kind = "transport" THEN Return(t, transport_error)
    ELSE IF is_client_error(r.status) THEN Return(t, auth_error("passivetotal"))
    ELSE IF r.kind # "pt" THEN Return(t, decode_error)
    ELSE IF PassiveTotalSubdomains(r) # <<>> THEN SendBatch(t, PassiveTotalSubdomains(r))
    ELSE Return(t, source_error("PassiveTotal", t.host))

\* ---- certspotter.rs: run(host) -> Result<HashSet<String>>, no sink
CertSpotterRunStart(t) == Request(t, "query")

CertSpotterRunResponse(t, r) ==
    IF r.kind = "transport" THEN Return(t, transport_error)
    ELSE IF r.kind = "null" THEN Return(t, Ok)
    ELSE IF r.kind # "certs" THEN Return(t, decode_error)
    ELSE [Return(t, Ok) EXCEPT !.ret = Range(Flatten(r.data))]

\* ---- DataSource::run, by source
RunStart(t, env) ==
    CASE t.source = "AnubisDB" -> AnubisRunStart(t)
      [] t.source = "Facebook" -> FacebookRunStart(t, env)
      [] t.source = "PassiveTotal" -> PassiveTotalRunStart(t, env)
      [] t.source = "CertSpotter" -> CertSpotterRunStart(t)

RunResponse(t, r) ==
    CASE t.source = "AnubisDB" -> AnubisRunResponse(t, r)
      [] t.source = "Facebook" /\ t.pc = "auth" -> authenticate(t, r)
      [] t.source = "Facebook" /\ t.pc = "query" -> FacebookRunResponse(t, r)
      [] t.source = "PassiveTotal" -> PassiveTotalRunResponse(t, r)
      [] t.source = "CertSpotter" -> CertSpotterRunResponse(t, r)

\* tx.send(subdomains).await?: Err when the receiver is gone, else the batch
\* is queued once the channel has room and run returns Ok(())
RunSent(t) == Return(t, Ok)
\* (RunSendIgnored: the result of send dropped, `?` left out)
RunSendIgnored(t) == Return(t, Ok)
RunSendFailed(t) == Return(t, send_error)

\* ------------------------------------------------------------------ Cleaner
\* PostProcessor (any_root / any_subdomain) and CleanExt::clean
RECURSIVE StripLeft(_)
StripLeft(s) == IF s # <<>> /\ Head(s) = QUOTE THEN StripLeft(Tail(s)) ELSE s

RECURSIVE StripRight(_)
StripRight(s) ==
    IF s # <<>> /\ s[Len(s)] = QUOTE THEN StripRight(SubSeq(s, 1, Len(s) - 1)) ELSE s

Normalise(s) == StripRight(StripLeft(s))

IsLabel(tok) == tok \notin {QUOTE, DOT, WILDCARD}

\* c is r, or ends in "." r
RootMatch(c, r) ==
    \/ c = r
    \/ /\ Len(c) > Len(r) + 1
       /\ SubSeq(c, Len(c) - Len(r) + 1, Len(c)) = r
       /\ c[Len(c) - Len(r)] = DOT

\* c is exactly one label deeper than r
SubMatch(c, r) ==
    /\ Len(c) = Len(r) + 2
    /\ IsLabel(c[1])
    /\ c[2] = DOT
    /\ SubSeq(c, 3, Len(c)) = r

Keeps(roots, subs, c) ==
    /\ c # <<>>
    /\ \A i \in 1..Len(c) : c[i] \notin {QUOTE, WILDCARD}
    /\ \E r \in roots : IF subs THEN SubMatch(c, r) ELSE RootMatch(c, r)

\* Option<String> as a sequence of at most one string
clean_one(roots, subs, s) ==
    IF Keeps(roots, subs, Normalise(s)) THEN <<Normalise(s)>> ELSE <<>>

\* v.iter().clean(&cleaner): the cleaned strings of a batch, in order
\* (clean_none: the batch used as it came)
clean_none(roots, subs, v) == v
clean(roots, subs, v) == Flatten([i \in 1..Len(v) |-> clean_one(roots, subs, v[i])])

\* ------------------------------------------------------------------ main.rs
\* HashSet::insert: a HashSet is a bag in which nothing occurs twice
\* (HashSetInsertVec: the same lines pushed on a Vec)
HashSetInsertVec(set, x) == set (+) SetToBag({x})
HashSetInsert(set, x) == IF BagIn(x, set) THEN set ELSE set (+) SetToBag({x})

RECURSIVE InsertAll(_, _)
InsertAll(set, xs) ==
    IF xs = <<>> THEN set ELSE InsertAll(HashSetInsert(set, Head(xs)), Tail(xs))

\* read_input: one insert per line
read_input(lines) == InsertAll(EmptyBag, lines)

\* ------------------------------------------------------------------ Runner
free_sources == <<"AnubisDB">>
keyed_sources == <<"Facebook", "PassiveTotal">>
all_sources == free_sources \o keyed_sources

\* T = hosts x selected sources, one task per element of each
TaskSet(hs, srcs) ==
    [k \in 1..(Len(hs) * Len(srcs)) |->
        Task(hs[((k - 1) \div Len(srcs)) + 1], srcs[((k - 1) % Len(srcs)) + 1])]

\* Runner::default().concurrency(max_concurrent): the limit main configures
\* (concurrency_default: the flag ignored and the default of 200 kept;
\* concurrency_zero: the limit left at zero)
concurrency_default(n) == 200
concurrency_zero(n) == 0
concurrency(n) == n

\* ------------------------------------------------------------------ inputs
EnvVars == {"FB_APP_ID", "FB_APP_SECRET", "PASSIVETOTAL_KEY", "PASSIVETOTAL_SECRET"}

\* the lines of the input: one host, h1 given up to MaxLines times, or the
\* two hosts
Inputs == {[i \in 1..n |-> h1] : n \in 1..MaxLines} \cup {<<h2>>, <<h1, h2>>}

\* the values given to --concurrency: one fetch at a time, or several
Concurrencies == {1, MaxConcurrency}

\* the environments of a run: nothing set, everything set, one variable of a
\* pair missing
RunEnvs ==
    {{}, EnvVars, EnvVars \ {"FB_APP_SECRET"}, EnvVars \ {"PASSIVETOTAL_KEY"},
     {"FB_APP_SECRET", "PASSIVETOTAL_KEY"}}

Statuses == {200, 404, 500}

\* What the upstream of a fetch may answer to its pending request.  Under
\* the "mock" profile the servers are healthy or down; under "any" they
\* answer with every status and every body shape.
MockResponses(t) ==
    CASE t.source = "AnubisDB" ->
            {Arr(200, <<Sub("a", t.host)>>), Groups(200, <<>>)}
      [] t.source = "Facebook" /\ t.pc = "auth" ->
            {Token(200, <<"tok">>)}
      [] t.source = "Facebook" /\ t.pc = "query" ->
            {Groups(200, << <<Sub("a", t.host), Sub(WILDCARD, t.host)>> >>), Transport}
      [] t.source = "PassiveTotal" ->
            {Pt(200, t.host, << <<"a">>, <<"b">> >>)}
      [] OTHER -> {}

Lists(host) == {<<>>, <<Sub("a", host)>>, <<Sub("a", host), Sub("b", host)>>}

AnyBodies(st, t) ==
    {Garbage(st), Null(st), Token(st, <<"tok">>)}
    \cup {Arr(st, l) : l \in Lists(t.host)}
    \cup {Groups(st, d) : d \in {<<>>, << <<>> >>, << <<Sub("a", t.host)>>, <<Sub("b", t.host)>> >>}}
    \cup {Pt(st, t.host, l) : l \in {<<>>, << <<"a">>, <<"b">> >>}}
    \cup {Certs(st, d) : d \in {<<>>, << <<Sub("a", t.host)>>, <<Sub("a", t.host)>> >>}}

AnyResponses(t) == {Transport} \cup UNION {AnyBodies(st, t) : st \in Statuses}

\* deterministic upstreams: the answer is a function of the source, the host
\* and the request
DetResponse(t) ==
    CASE t.source = "AnubisDB" ->
            IF t.host = h1 THEN Arr(200, <<Sub("a", t.host), Sub("b", t.host)>>)
            ELSE Groups(200, <<>>)
      [] t.source = "Facebook" /\ t.pc = "auth" -> Token(200, <<"tok">>)
      [] t.source = "Facebook" /\ t.pc = "query" ->
            Groups(200, << <<Sub("a", t.host), Sub(WILDCARD, t.host)>>, <<t.host>> >>)
      [] t.source = "PassiveTotal" ->
            IF t.host = h1 THEN Pt(200, t.host, <<>>)
            ELSE Pt(200, t.host, << <<"a">>, <<"c">> >>)
      [] OTHER -> Transport

Responses(prof, t) ==
    CASE prof = "mock" -> MockResponses(t)
      [] prof = "det" -> {DetResponse(t)}
      [] OTHER -> AnyResponses(t)

\* ------------------------------------------------------------------ state
VARIABLES
    input,          \* the lines read_input reads
    hosts,          \* ParsedArgs.hosts
    env,            \* the environment variables that are set
    flush,          \* --flush
    subs_only,      \* --subs-only
    max_concurrent, \* --concurrency
    sources,        \* the sources the Runner was built with
    profile,        \* how the upstream servers behave
    tasks,          \* the fetches of the run
    chan,           \* the batches queued in the mpsc channel
    txAlive,        \* the runner still holds its Sender
    rxAlive,        \* the Receiver has not been dropped
    pcMain,         \* main: "recv" in the while-let loop, "done" after it, "dropped" once the stream is dropped
    exit,           \* what main returned: Pending until it returns
    results,        \* main's HashSet<String>
    printed,        \* the lines written to stdout, as a bag: their order is not modelled
    yielded         \* per task, the batches stream.next() handed to main

vars ==
    <<input, hosts, env, flush, subs_only, max_concurrent, sources, profile, tasks,
      chan, txAlive, rxAlive, pcMain, exit, results, printed, yielded>>

config == <<input, hosts, env, flush, subs_only, max_concurrent, sources, profile>>

N == Len(tasks)
\* (InFlightSetLeaky: a failed fetch keeps its slot)
InFlightSetLeaky ==
    {i \in 1..N : \/ tasks[i].pc \in {"auth", "query", "sending"}
                  \/ tasks[i].pc = "done" /\ tasks[i].result # Ok}
InFlightSet == {i \in 1..N : tasks[i].pc \in {"auth", "query", "sending"}}
InFlight == Cardinality(InFlightSet)
AllDone == \A i \in 1..N : tasks[i].pc = "done"

\* channel(capacity): the Runner sizes it by its concurrency
\* (CapacityPerSender: one more slot for every task, on top of the buffer)
CapacityPerSender == concurrency(max_concurrent) + Len(tasks)
Capacity == concurrency(max_concurrent)

\* live Sender handles: the runner's and one clone per fetch in progress
Senders == (IF txAlive THEN 1 ELSE 0) + InFlight
Closed == Senders = 0

Roots == BagToSet(hosts)

\* the state when runner.run(hosts) has returned the stream
RunInit(srcs, prof) ==
    /\ hosts = read_input(input)
    /\ sources = srcs
    /\ profile = prof
    /\ tasks = TaskSet(BagToSeq(hosts), srcs)
    /\ chan = <<>>
    /\ txAlive = TRUE
    /\ rxAlive = TRUE
    /\ pcMain = "recv"
    /\ exit = Pending
    /\ results = EmptyBag
    /\ printed = EmptyBag
    /\ yielded = [i \in 1..Len(tasks) |-> <<>>]

Init ==
    /\ input \in Inputs
    /\ env \in RunEnvs
    /\ flush \in BOOLEAN
    /\ subs_only \in BOOLEAN
    /\ max_concurrent \in Concurrencies
    /\ \E all \in BOOLEAN : RunInit(IF all THEN all_sources ELSE free_sources, "mock")

\* a run without --flush against deterministic upstreams
InitDet ==
    /\ input \in Inputs
    /\ env \in RunEnvs
    /\ flush = FALSE
    /\ subs_only \in BOOLEAN
    /\ max_concurrent \in Concurrencies
    /\ \E all \in BOOLEAN : RunInit(IF all THEN all_sources ELSE free_sources, "det")

\* a run over all sources whose caller may drop the stream
InitDrop ==
    /\ input \in {<<h1>>, <<h1, h2>>}
    /\ env = EnvVars
    /\ flush = FALSE
    /\ subs_only = FALSE
    /\ max_concurrent \in Concurrencies
    /\ RunInit(all_sources, "mock")

\* one adapter called alone on a channel(1), as the adapters' tests call it,
\* against servers that answer anything
InitFetch ==
    /\ input = <<h1>>
    /\ env \in SUBSET EnvVars
    /\ flush = FALSE
    /\ subs_only = FALSE
    /\ max_concurrent = 1
    /\ \E src \in Range(all_sources) \cup {"CertSpotter"} : RunInit(<<src>>, "any")

\* ------------------------------------------------------------------ actions
\* the executor admits a scheduled task while a slot is free and polls it:
\* the fetch runs to its first await
\* (CanAdmitAnyway: admission that does not look at the receiver)
CanAdmitAnyway(i) ==
    /\ tasks[i].pc = "scheduled"
    /\ InFlight < concurrency(max_concurrent)
CanAdmit(i) ==
    /\ tasks[i].pc = "scheduled"
    /\ InFlight < concurrency(max_concurrent)
    /\ rxAlive

Admit(i) ==
    /\ CanAdmit(i)
    /\ tasks' = [tasks EXCEPT ![i] = RunStart(@, env)]
    /\ UNCHANGED <<config, chan, txAlive, rxAlive, pcMain, exit, results, printed, yielded>>

\* the pending HTTP request of a fetch completes (response, error or timeout)
CanRespond(i) ==
    /\ tasks[i].pc \in {"auth", "query"}
    /\ Responses(profile, tasks[i]) # {}

Respond(i) ==
    /\ CanRespond(i)
    /\ \E r \in Responses(profile, tasks[i]) :
          tasks' = [tasks EXCEPT ![i] = RunResponse(Received(@, r), r)]
    /\ UNCHANGED <<config, chan, txAlive, rxAlive, pcMain, exit, results, printed, yielded>>

\* tx.send(batch).await completes: the channel has room, or the receiver
\* is gone
CanSend(i) ==
    /\ tasks[i].pc = "sending"
    /\ rxAlive => Len(chan) < Capacity

Send(i) ==
    /\ CanSend(i)
    /\ IF rxAlive
       THEN /\ chan' = Append(chan, [task |-> i, items |-> tasks[i].batch])
            /\ tasks' = [tasks EXCEPT ![i] = RunSent(@)]
       ELSE /\ chan' = chan
            /\ tasks' = [tasks EXCEPT ![i] = RunSendFailed(@)]
    /\ UNCHANGED <<config, txAlive, rxAlive, pcMain, exit, results, printed, yielded>>

\* all tasks have completed: the runner's sender half is dropped
\* (RunnerIdle: dropped as soon as nothing is in flight)
RunnerIdle == InFlight = 0
RunnerFinished == AllDone

CanDropSender == txAlive /\ RunnerFinished

DropSender ==
    /\ CanDropSender
    /\ txAlive' = FALSE
    /\ UNCHANGED <<config, tasks, chan, rxAlive, pcMain, exit, results, printed, yielded>>

\* println! for each cleaned name of a batch, as often as it occurs
\* (PrintUnlessSeen: a name already on stdout is not printed again)
PrintUnlessSeen(out, cleaned) ==
    out (+) SetToBag({x \in Range(cleaned) : ~BagIn(x, out)})
PrintEach(out, cleaned) == out (+) SeqToBag(cleaned)

\* stream.next() is Some(v): clean v, print or insert each cleaned name
CanMainBatch == pcMain = "recv" /\ rxAlive /\ chan # <<>>

MainBatch ==
    /\ CanMainBatch
    /\ LET v == Head(chan).items
           cleaned == clean(Roots, subs_only, v)
       IN  /\ printed' = IF flush THEN PrintEach(printed, cleaned) ELSE printed
           /\ results' = IF flush THEN results ELSE InsertAll(results, cleaned)
    /\ yielded' = [yielded EXCEPT ![Head(chan).task] = Append(@, Head(chan).items)]
    /\ chan' = Tail(chan)
    /\ pcMain' = "recv"
    /\ UNCHANGED <<config, tasks, txAlive, rxAlive, exit>>

\* stream.next() is None: print the set unless flushing, return Ok(())
\* (CanMainEndEarly: the loop left as soon as the channel is empty)
CanMainEndEarly == pcMain = "recv" /\ rxAlive /\ chan = <<>>
CanMainEnd == pcMain = "recv" /\ rxAlive /\ chan = <<>> /\ Closed

\* what main returns after the loop: Ok(()), whatever the fetches returned
\* (MainReturnFirstError: the error of a failed fetch returned by main)
MainReturnFirstError ==
    IF \E i \in 1..N : tasks[i].pc = "done" /\ tasks[i].result.tag = "Err"
    THEN (CHOOSE e \in {tasks[i].result : i \in 1..N} : e.tag = "Err")
    ELSE Ok
MainReturn == Ok

MainEnd ==
    /\ CanMainEnd
    /\ printed' = IF flush THEN printed ELSE printed (+) results
    /\ pcMain' = "done"
    /\ exit' = MainReturn
    /\ UNCHANGED <<config, tasks, chan, txAlive, rxAlive, results, yielded>>

\* the caller drops the stream: the Receiver closes the channel and the
\* batches still queued are dropped with it
CanDropReceiver == pcMain = "recv" /\ rxAlive

DropReceiver ==
    /\ CanDropReceiver
    /\ rxAlive' = FALSE
    /\ pcMain' = "dropped"
    /\ chan' = <<>>
    /\ UNCHANGED <<config, tasks, txAlive, exit, results, printed, yielded>>

Next ==
    \/ MainBatch
    \/ MainEnd
    \/ DropSender
    \/ \E i \in 1..N : Admit(i)
    \/ \E i \in 1..N : Respond(i)
    \/ \E i \in 1..N : Send(i)

\* the guards of Next: some step is possible
CanStep ==
    \/ CanMainBatch
    \/ CanMainEnd
    \/ CanDropSender
    \/ \E i \in 1..N : CanAdmit(i) \/ CanRespond(i) \/ CanSend(i)

Spec == Init /\ [][Next]_vars

SpecFetch == InitFetch /\ [][Next]_vars

SpecDet == InitDet /\ [][Next]_vars

NextDrop == Next \/ DropReceiver

SpecDrop == InitDrop /\ [][NextDrop]_vars

\* ------------------------------------------------------------------ claims
HostSet == Range(input)
SourceSet == Range(sources)
Invoked(i) == tasks[i].pc # "scheduled"
Fetches(h, s) ==
    {i \in 1..N : tasks[i].host = h /\ tasks[i].source = s /\ Invoked(i)}
Failed(i) == tasks[i].pc = "done" /\ tasks[i].result.tag \in {"Err", "Panic"}
Succeeded(i) == tasks[i].pc = "done" /\ tasks[i].result = Ok
InChan(i) == Cardinality({k \in 1..Len(chan) : chan[k].task = i})
\* the batches of task i that are queued or were handed to main
Pushed(i) == InChan(i) + Len(yielded[i])
EndOfStream == pcMain = "done"

\* C1: every pair (h, s) of the host set and the selected sources has its
\* fetch invoked at most once at any time and exactly once when the run has
\* ended, and no fetch is invoked for anything but such a pair.
C1_EachPairFetchedOnce ==
    /\ \A i \in 1..N : tasks[i].host \in HostSet /\ tasks[i].source \in SourceSet
    /\ \A h \in HostSet, s \in SourceSet :
          /\ Cardinality(Fetches(h, s)) <= 1
          /\ EndOfStream => Cardinality(Fetches(h, s)) = 1

\* a finished run over two hosts and three sources, given a repeated line,
\* in which fetches failed and fetches succeeded
C1_Witness ==
    /\ EndOfStream
    /\ Cardinality(HostSet) = 2
    /\ Cardinality(SourceSet) = 3
    /\ \E i, j \in 1..N : Failed(i) /\ Succeeded(j)

C3_ClosedIffAllDone ==
    /\ [](Closed => AllDone)
    /\ [](EndOfStream => AllDone /\ Closed)
    /\ [][Closed => Len(chan') <= Len(chan)]_vars
    /\ [](AllDone /\ ~Closed => CanDropSender)

\* the channel is closed with batches still queued for main
C3_Witness == Closed /\ AllDone /\ Len(chan) >= 2 /\ pcMain = "recv"

\* what is left to do: the awaits ahead of every fetch, the batches queued,
\* the sender to drop and the loop to leave
Rank(pc) ==
    CASE pc = "scheduled" -> 8
      [] pc = "auth" -> 6
      [] pc = "query" -> 4
      [] pc = "sending" -> 2
      [] pc = "done" -> 0

RECURSIVE RankSum(_)
RankSum(ts) == IF ts = <<>> THEN 0 ELSE Rank(Head(ts).pc) + RankSum(Tail(ts))

Remaining ==
    RankSum(tasks) + Len(chan) + (IF txAlive THEN 1 ELSE 0)
    + (IF EndOfStream THEN 0 ELSE 1)

\* C4: a run reaches end-of-stream: until main has left its loop the guard
\* of some step holds (no state is a deadlock of fetches waiting on a full channel
\* or on admission), and every step leaves strictly less to do, so a run
\* that keeps stepping ends.
C4_Terminates ==
    /\ [](EndOfStream \/ CanStep)
    /\ [](EndOfStream => Remaining = 0)
    /\ [][Remaining' < Remaining]_vars

\* main has left the loop after a run of six fetches in which the channel
\* had to be drained for the fetches to finish
C4_Witness ==
    /\ EndOfStream
    /\ N = 6
    /\ max_concurrent = 1
    /\ Cardinality({i \in 1..N : yielded[i] # <<>>}) >= 5

\* C5: a fetch that returned Ok has its one batch queued or handed to main,
\* never both and never twice, a fetch that did not return Ok has none, and
\* at end-of-stream main has been handed the batch of every Ok fetch.
C5_BatchesDeliveredOnce ==
    \A i \in 1..N :
        /\ Succeeded(i) => Pushed(i) = 1
        /\ ~Succeeded(i) => Pushed(i) = 0
        /\ \A k \in 1..Len(chan) : chan[k].task = i => chan[k].items = tasks[i].batch
        /\ \A k \in 1..Len(yielded[i]) : yielded[i][k] = tasks[i].batch
        /\ EndOfStream /\ Succeeded(i) => yielded[i] = <<tasks[i].batch>>

\* main has been handed a batch while the channel is full again and a
\* fetch is suspended in its send
C5_Witness ==
    /\ \E i \in 1..N : yielded[i] # <<>>
    /\ Len(chan) = Capacity
    /\ \E i \in 1..N : tasks[i].pc = "sending"
    /\ \E i \in 1..N : Succeeded(i) /\ InChan(i) = 1

\* the fetches that hold a slot: admitted and not returned
Running == {k \in 1..N : tasks[k].pc \in {"auth", "query", "sending"}}

\* C6: after a fetch has failed or panicked the run is never stuck before
\* end-of-stream, a scheduled task can be admitted whenever fewer fetches
\* than the concurrency are running, and at end-of-stream every task is
\* done and the batch of every Ok fetch has been handed to main.
C6_FailureIsolated ==
    (\E j \in 1..N : Failed(j)) =>
        /\ EndOfStream \/ CanStep
        /\ \A i \in 1..N :
              tasks[i].pc = "scheduled" /\ Cardinality(Running) < max_concurrent
                  => CanAdmit(i)
        /\ EndOfStream =>
              /\ AllDone
              /\ \A i \in 1..N : Succeeded(i) => yielded[i] = <<tasks[i].batch>>

\* a run ended in which a fetch panicked, another returned an error, and
\* fetches admitted after them succeeded and were delivered
C6_Witness ==
    /\ EndOfStream
    /\ max_concurrent = 1
    /\ \E i, j \in 1..N :
          /\ tasks[i].result = Panic
          /\ tasks[j].result.tag = "Err"
    /\ \E i \in 1..N : tasks[i].source = "PassiveTotal" /\ yielded[i] # <<>>

\* ---- the adapters, one fetch at a time
SinkAdapters == {"AnubisDB", "Facebook", "PassiveTotal"}

\* the response task i holds is the answer to its list query
AtList(i) ==
    /\ tasks[i].pc \in {"sending", "done"}
    /\ tasks[i].source = "Facebook" => tasks[i].reqs = 2

\* the list of hostnames the response of task i decodes to
HasList(i) ==
    /\ AtList(i)
    /\ \/ tasks[i].source = "AnubisDB" /\ tasks[i].resp.kind = "arr"
       \/ tasks[i].source = "Facebook" /\ tasks[i].resp.kind = "groups"
       \/ tasks[i].source = "PassiveTotal" /\ tasks[i].resp.kind = "pt"
       \/ tasks[i].source = "CertSpotter" /\ tasks[i].resp.kind = "certs"

ListOf(i) ==
    CASE tasks[i].source = "AnubisDB" -> AnubisSubdomains(tasks[i].resp)
      [] tasks[i].source = "Facebook" -> FacebookSubdomains(tasks[i].resp)
      [] tasks[i].source = "PassiveTotal" -> PassiveTotalSubdomains(tasks[i].resp)
      [] tasks[i].source = "CertSpotter" -> Flatten(tasks[i].resp.data)

\* C7: a fetch of AnubisDB, Facebook or PassiveTotal whose 200 response
\* decodes to a non-empty list passes that list to tx.send, returns Ok once
\* it is queued, and has then pushed exactly one batch, holding that list;
\* it never has two batches pushed.
C7_OneBatchForNonEmptyList ==
    \A i \in 1..N :
        /\ Pushed(i) <= 1
        /\ tasks[i].source \in SinkAdapters /\ HasList(i)
            /\ tasks[i].resp.status = 200 /\ ListOf(i) # <<>>
           => /\ tasks[i].batch = ListOf(i)
              /\ tasks[i].pc = "sending" => Pushed(i) = 0
              /\ tasks[i].pc = "done" =>
                    /\ tasks[i].result = Ok
                    /\ Pushed(i) = 1
                    /\ \A k \in 1..Len(chan) : chan[k].items = ListOf(i)
                    /\ \A k \in 1..Len(yielded[i]) : yielded[i][k] = ListOf(i)

\* a Facebook fetch, after its two requests, returned Ok and main was handed
\* its batch of two names
C7_Witness ==
    \E i \in 1..N :
        /\ tasks[i].source = "Facebook"
        /\ tasks[i].reqs = 2
        /\ tasks[i].result = Ok
        /\ yielded[i] = << <<Sub("a", h1), Sub("b", h1)>> >>

\* the response of task i is no data: no response, not JSON, null, or an
\* empty list
EmptyList(i) == HasList(i) /\ ListOf(i) = <<>>

NoData(i) ==
    /\ tasks[i].pc = "done"
    /\ tasks[i].reqs >= 1
    /\ \/ tasks[i].resp.kind \in {"transport", "garbage", "null"}
       \/ EmptyList(i)

NoDataIsError(i) ==
    /\ NoData(i) =>
          /\ tasks[i].result.tag = "Err"
          /\ tasks[i].batch = <<>>
          /\ Pushed(i) = 0
    /\ EmptyList(i) /\ tasks[i].resp.status = 200 =>
          tasks[i].result = source_error(tasks[i].source, tasks[i].host)

\* C8 as claimed: for every adapter, CertSpotter among them, a fetch whose
\* response is no data returns an error and pushes nothing, and an empty
\* list is reported as the no-results error of that source and host.
C8_NoDataIsErrorEveryAdapter == \A i \in 1..N : NoDataIsError(i)

\* C8 as amended: that holds of AnubisDB, Facebook and PassiveTotal;
\* CertSpotter's run returns Ok with an empty set for a null response and
\* for an empty list, and an error when there is no response or no JSON.
C8_NoDataIsErrorSinkAdapters ==
    \A i \in 1..N :
        /\ tasks[i].source \in SinkAdapters => NoDataIsError(i)
        /\ tasks[i].source = "CertSpotter" /\ NoData(i) =>
              /\ Pushed(i) = 0
              /\ tasks[i].resp.kind \in {"transport", "garbage"}
                    => tasks[i].result.tag = "Err"
              /\ tasks[i].resp.kind = "null" \/ EmptyList(i)
                    => tasks[i].result = Ok /\ tasks[i].ret = {}

\* a PassiveTotal fetch got a 200 response with no subdomains and returned
\* the no-results error for its host
C8_Witness ==
    \E i \in 1..N :
        /\ tasks[i].source = "PassiveTotal"
        /\ tasks[i].resp = Pt(200, h1, <<>>)
        /\ tasks[i].result = source_error("PassiveTotal", h1)
        /\ EndOfStream

\* C9 as claimed: a fetch whose response carries a 4xx or 5xx status has
\* returned, not with Ok, and has passed nothing to the sink.  (A panic is
\* let pass here, so that what refutes this is the status alone.)
C9_ErrorStatusIsError ==
    \A i \in 1..N :
        tasks[i].source \in SinkAdapters /\ IsErrorStatus(tasks[i].resp.status) =>
            /\ tasks[i].pc = "done"
            /\ tasks[i].result.tag # "Ok"
            /\ tasks[i].batch = <<>>
            /\ Pushed(i) = 0

\* C10: a Facebook or PassiveTotal fetch with a variable of its pair unset
\* returns the key error of its source with no request issued and nothing
\* pushed; every other fetch issues its requests, never returns a key error,
\* and at end-of-stream is done with its batch, if Ok, handed to main.
CredVars(source) ==
    CASE source = "Facebook" -> {"FB_APP_ID", "FB_APP_SECRET"}
      [] source = "PassiveTotal" -> {"PASSIVETOTAL_KEY", "PASSIVETOTAL_SECRET"}
      [] OTHER -> {}

MissingCreds(i) == CredVars(tasks[i].source) \ env # {}

C10_MissingCredentials ==
    \A i \in 1..N :
        /\ MissingCreds(i) /\ Invoked(i) =>
              /\ tasks[i].pc = "done"
              /\ tasks[i].result = key_error(tasks[i].source)
              /\ tasks[i].reqs = 0
              /\ tasks[i].batch = <<>>
              /\ Pushed(i) = 0
        /\ ~MissingCreds(i) =>
              /\ Invoked(i) => tasks[i].reqs >= 1
              /\ tasks[i].result.kind # "key_error"
              /\ EndOfStream => tasks[i].pc = "done"
              /\ EndOfStream /\ Succeeded(i) => yielded[i] = <<tasks[i].batch>>

\* FB_APP_SECRET alone is unset: the Facebook fetches returned the key
\* error, the PassiveTotal and AnubisDB fetches of the run delivered
C10_Witness ==
    /\ EndOfStream
    /\ env = EnvVars \ {"FB_APP_SECRET"}
    /\ \E i, j, k \in 1..N :
          /\ tasks[i].source = "Facebook" /\ tasks[i].result = key_error("Facebook")
          /\ tasks[j].source = "PassiveTotal" /\ yielded[j] # <<>>
          /\ tasks[k].source = "AnubisDB" /\ yielded[k] # <<>>

\* the requests the protocol of a source has: Facebook authenticates, then
\* queries; the others query once
Requests(source) == IF source = "Facebook" THEN 2 ELSE 1

\* C11 as claimed: whatever the upstream answers, a fetch never panics and
\* never issues a request of its protocol a second time.
C11_NeverPanicsNoRetry ==
    \A i \in 1..N :
        /\ tasks[i].result # Panic
        /\ tasks[i].reqs <= Requests(tasks[i].source)

\* ---- what main prints
\* the strings of the batches main has been handed, batch after batch
Taken == Flatten(Flatten(yielded))
\* the Cleaner's outputs for them
TakenCleaned == clean(Roots, subs_only, Taken)

\* C12: every line printed, and every element of the result set, passes the
\* Cleaner and is the Cleaner's output for a string of a batch main was
\* handed.
C12_PrintedIsCleaned ==
    \A x \in BagToSet(printed) \cup BagToSet(results) :
        /\ Keeps(Roots, subs_only, x)
        /\ \E k \in 1..Len(Taken) : clean_one(Roots, subs_only, Taken[k]) = <<x>>

\* a run has printed, after main was handed a string the Cleaner rejects
\* and a string the Cleaner changes
C12_Witness ==
    /\ EndOfStream
    /\ BagToSet(printed) # {}
    /\ \E k \in 1..Len(Taken) : clean_one(Roots, subs_only, Taken[k]) = <<>>
    /\ \E k \in 1..Len(Taken) :
          /\ clean_one(Roots, subs_only, Taken[k]) # <<>>
          /\ clean_one(Roots, subs_only, Taken[k]) # <<Taken[k]>>

\* C13: without --flush no line is printed twice and nothing is printed
\* before the loop is left; after it every cleaned name main was handed is
\* on stdout exactly once.
C13_NoDuplicateLines ==
    ~flush =>
        /\ \A x \in BagToSet(printed) : CopiesIn(x, printed) = 1
        /\ \A x \in BagToSet(results) : CopiesIn(x, results) = 1
        /\ ~EndOfStream => printed = EmptyBag
        /\ EndOfStream =>
              \A k \in 1..Len(TakenCleaned) : CopiesIn(TakenCleaned[k], printed) = 1

\* a run without --flush has ended in which one name came in the batches of
\* three sources and the name of another host came too
C13_Witness ==
    /\ ~flush
    /\ EndOfStream
    /\ \E x \in BagToSet(printed) :
          /\ Cardinality({i \in 1..N : \E k \in 1..Len(tasks[i].batch) :
                 yielded[i] # <<>> /\ clean_one(Roots, subs_only, tasks[i].batch[k]) = <<x>>}) >= 3
          /\ \E y \in BagToSet(printed) : y # x /\ y[Len(y)] # x[Len(x)]

\* C14: with --flush, in every state stdout holds the cleaned names of the
\* batches main was handed so far, each as often as it came (so a batch is
\* printed in the step that takes it and leaving the loop prints nothing),
\* and the result set stays empty.
C14_FlushPrintsEachBatch ==
    flush =>
        /\ printed = SeqToBag(TakenCleaned)
        /\ results = EmptyBag

\* with --flush a name is on stdout twice while the next batch still waits
\* in the channel
C14_Witness ==
    /\ flush
    /\ pcMain = "recv"
    /\ chan # <<>>
    /\ \E x \in BagToSet(printed) : CopiesIn(x, printed) >= 2

\* C17: a run always gets to the end of main, which returns Ok(()) with
\* everything it was handed printed; a failed fetch has put nothing in the
\* stream.
C17_ExitsZero ==
    /\ EndOfStream \/ CanStep
    /\ ~EndOfStream => exit = Pending
    /\ EndOfStream =>
          /\ exit = Ok
          /\ BagToSet(printed) = Range(TakenCleaned)
    /\ \A i \in 1..N : Failed(i) => yielded[i] = <<>> /\ InChan(i) = 0

\* main returned after a run of six fetches that all failed, by a panic or
\* by an error
C17_Witness ==
    /\ EndOfStream
    /\ exit = Ok
    /\ N = 6
    /\ \A i \in 1..N : Failed(i)
    /\ \E i, j \in 1..N : tasks[i].result = Panic /\ tasks[j].result.tag = "Err"
    /\ printed = EmptyBag

\* C16: the channel never holds more batches than the concurrency; a fetch
\* suspended in its send holds a slot and its batch, has pushed nothing yet,
\* can send as soon as there is room, and main can make room when the
\* channel is full; a step leaves it suspended with the same batch or
\* queues exactly that batch behind those already queued; and a queued batch
\* is changed by no step and leaves the channel only when main takes it.
C16_BoundedSink ==
    /\ [](Len(chan) <= max_concurrent)
    /\ [](\A i \in 1..N : tasks[i].pc = "sending" =>
             /\ i \in InFlightSet
             /\ tasks[i].batch # <<>>
             /\ Pushed(i) = 0
             /\ Len(chan) < max_concurrent => CanSend(i)
             /\ Len(chan) >= max_concurrent => ~CanSend(i) /\ CanMainBatch)
    /\ [][\A i \in 1..N : tasks[i].pc = "sending" =>
             \/ tasks'[i] = tasks[i]
             \/ /\ tasks'[i].pc = "done"
                /\ tasks'[i].result = Ok
                /\ tasks'[i].batch = tasks[i].batch
                /\ chan' = Append(chan, [task |-> i, items |-> tasks[i].batch])]_vars
    /\ [][\/ chan' = chan
          \/ /\ chan # <<>>
             /\ chan' = Tail(chan)
             /\ yielded'[Head(chan).task] = <<Head(chan).items>>
          \/ \E i \in 1..N : chan' = Append(chan, [task |-> i, items |-> tasks[i].batch])]_vars

\* the channel is full at a concurrency of two, both slots are held by
\* fetches suspended in their send, and main has taken batches before
C16_Witness ==
    /\ max_concurrent = 2
    /\ Len(chan) = 2
    /\ Cardinality({i \in 1..N : tasks[i].pc = "sending"}) = 2
    /\ \E i \in 1..N : yielded[i] # <<>>

\* ---- the output as a function of the input
\* what the fetch of (host, source) sends against the deterministic
\* upstreams when its credentials are set: the batch its run ends with
RECURSIVE RunToEnd(_, _)
RunToEnd(t, e) ==
    IF t.pc = "scheduled" THEN RunToEnd(RunStart(t, e), e)
    ELSE IF t.pc \in {"auth", "query"}
         THEN RunToEnd(RunResponse(Received(t, DetResponse(t)), DetResponse(t)), e)
    ELSE IF t.pc = "sending" THEN t.batch
    ELSE <<>>

\* the lines a run over hs and srcs in mode subs prints under environment e
Expected(hs, srcs, subs, e) ==
    UNION {Range(clean(hs, subs, RunToEnd(Task(h, s), e))) : h \in hs, s \in srcs}

\* C18: against deterministic upstreams the set a run without --flush has
\* printed at its end is the function Expected of the hosts, the sources,
\* the cleaner mode and the environment, whatever the interleaving and the
\* concurrency, and each name of it is printed once: two runs over the same
\* input print the same set.
C18_OutputIsFunctionOfInput ==
    EndOfStream =>
        printed = SetToBag(Expected(HostSet, SourceSet, subs_only, env))

\* a run over two hosts and three sources at a concurrency of two has ended
\* with names of both hosts printed, batches having arrived out of task order
C18_Witness ==
    /\ EndOfStream
    /\ max_concurrent = 2
    /\ N = 6
    /\ \E x, y \in BagToSet(printed) : x[Len(x)] # y[Len(y)]
    /\ Cardinality(BagToSet(printed)) >= 4

\* ---- a caller that drops the stream
\* the fetch of task i moved on, or stayed where it was
Advanced(i) ==
    /\ tasks'[i].host = tasks[i].host
    /\ tasks'[i].source = tasks[i].source
    /\ Rank(tasks'[i].pc) < Rank(tasks[i].pc)

\* C15: once the Receiver is dropped no task can be admitted and a scheduled
\* task stays as it is; the drop itself changes no task; and a fetch in
\* flight is never unscheduled or removed: it can always take its next step
\* (its response, or its send, which no longer waits for room) and only
\* moves towards done.
C15_NoAdmissionAfterDrop ==
    /\ [](~rxAlive => \A i \in 1..N : ~CanAdmit(i))
    /\ [][~rxAlive => \A i \in 1..N :
             tasks[i].pc = "scheduled" => tasks'[i] = tasks[i]]_vars
    /\ [][rxAlive /\ ~rxAlive' => tasks' = tasks]_vars
    /\ [](~rxAlive => \A i \in InFlightSet : CanRespond(i) \/ CanSend(i))
    /\ [][\A i \in InFlightSet : tasks'[i] = tasks[i] \/ Advanced(i)]_vars

\* the stream was dropped with a fetch in flight: that fetch has run to its
\* end and nothing is in flight, and a task is still scheduled
C15_Witness ==
    /\ ~rxAlive
    /\ InFlight = 0
    /\ \E i \in 1..N : tasks[i].pc = "scheduled"
    /\ \E i \in 1..N : tasks[i].result = send_error /\ tasks[i].reqs >= 1

\* C19: with the Receiver dropped, a fetch suspended in its send can always
\* complete it, and it completes by returning the send error with nothing
\* queued and nothing handed to the caller; no fetch that returned Ok, and
\* no fetch that returned the send error, has a batch in a closed channel.
C19_SendToClosedFails ==
    /\ [](~rxAlive => chan = <<>>)
    /\ [](~rxAlive => \A i \in 1..N : tasks[i].pc = "sending" => CanSend(i))
    /\ [][~rxAlive => \A i \in 1..N :
             tasks[i].pc = "sending" /\ tasks'[i] # tasks[i] =>
                 /\ tasks'[i].pc = "done"
                 /\ tasks'[i].result = send_error
                 /\ chan' = chan
                 /\ yielded' = yielded]_vars
    /\ [](\A i \in 1..N : tasks[i].result = send_error =>
             /\ tasks[i].batch # <<>>
             /\ ~rxAlive
             /\ Pushed(i) = 0)

\* after the drop a Facebook fetch and a fetch of another source, each with
\* a list to send, have returned the send error
C19_Witness ==
    /\ ~rxAlive
    /\ \E i, j \in 1..N :
          /\ tasks[i].source = "Facebook" /\ tasks[i].reqs = 2
          /\ tasks[i].result = send_error /\ tasks[i].batch # <<>>
          /\ tasks[j].source # "Facebook"
          /\ tasks[j].result = send_error /\ tasks[j].batch # <<>>

\* ---- Facebook's two requests
\* C20: a Facebook fetch issues its second request, the certificate query,
\* only in the step in which its first, the authentication, is answered
\* with an access token; a fetch without credentials issues no request, and
\* a fetch whose authentication got no token has returned an error after
\* that one request; neither has passed a batch to the sink.
C20_QueryOnlyAfterToken ==
    /\ [][\A i \in 1..N :
             tasks[i].source = "Facebook" /\ tasks'[i].reqs # tasks[i].reqs =>
                 \/ /\ tasks[i].pc = "scheduled" /\ read_creds(env)
                    /\ tasks'[i].reqs = 1 /\ tasks'[i].pc = "auth"
                 \/ /\ tasks[i].pc = "auth" /\ tasks[i].reqs = 1
                    /\ tasks'[i].resp.kind = "token"
                    /\ tasks'[i].reqs = 2 /\ tasks'[i].pc = "query"]_vars
    /\ [](\A i \in 1..N : tasks[i].source = "Facebook" =>
             /\ tasks[i].pc = "auth" => tasks[i].reqs = 1 /\ tasks[i].batch = <<>>
             /\ ~read_creds(env) /\ Invoked(i) =>
                   /\ tasks[i].reqs = 0
                   /\ tasks[i].result.tag = "Err"
                   /\ tasks[i].batch = <<>> /\ Pushed(i) = 0
             /\ tasks[i].reqs = 1 /\ tasks[i].pc # "auth" =>
                   /\ tasks[i].resp.kind # "token"
                   /\ tasks[i].pc = "done"
                   /\ tasks[i].result.tag = "Err"
                   /\ tasks[i].batch = <<>> /\ Pushed(i) = 0)

\* a Facebook fetch whose authentication was answered with null has
\* returned the authentication error after its one request
C20_Witness ==
    \E i \in 1..N :
        /\ tasks[i].source = "Facebook"
        /\ tasks[i].reqs = 1
        /\ tasks[i].resp = Null(200)
        /\ tasks[i].result = auth_error("Facebook")
        /\ EndOfStream

====
